---- MODULE Spec2Model ----
(***************************************************************************)
(* State-machine model of the conversation list loader                     *)
(* (src/src/components/chat/ChatList.tsx, ChatList / fetchChats).          *)
(*                                                                         *)
(* fetchChats is one async function.  Every `await` is a suspension point; *)
(* the code between two awaits runs without interruption.  Each action     *)
(* below is one resumption: it consumes the answer of the query that was   *)
(* awaited, runs the code up to the next await (or to the end of the       *)
(* function, finally-block included) and issues the next query.            *)
(*                                                                         *)
(* Encoding of JavaScript values:                                          *)
(*   null / undefined / ''   is the empty sequence <<>>                    *)
(*   a present value v       is the one-element sequence <<v>>             *)
(*   a number result n is <<n>> where NaN can occur, NaN being <<>>        *)
(***************************************************************************)
EXTENDS Integers, Sequences, FiniteSets, TLC

\* ------------------------------------------------------------- bounds
MaxChats == 2     \* conversations the current user is a member of
MaxMsgs  == 2     \* messages stored per conversation
MaxTime  == 2     \* creation timestamps range over 1..MaxTime
DayLen   == 2     \* clock ticks per day (toLocaleTimeString keeps the time of day only)

\* ------------------------------------------------------ backend tables
Me    == "me"
Peers == {"u1", "u2", "u3"}

\* profiles table: u1 has a full row, u2 a row with a null username and no
\* avatar, u3 has no row at all.
ProfileRow(u) ==
  CASE u = "u1" -> << [username |-> <<"ana">>, avatar_url |-> <<"a.png">>] >>
    [] u = "u2" -> << [username |-> <<>>,      avatar_url |-> <<>>] >>
    [] OTHER    -> <<>>

Senders == {Me, "peer"}

\* messages rows; the text of a message is identified by its timestamp
MsgPool ==
  { [content |-> <<t>>, created_at |-> t, sender_id |-> s, read |-> r] :
      t \in 1..MaxTime, s \in Senders, r \in BOOLEAN }

DistinctTimes(S) == \A m1, m2 \in S : m1.created_at = m2.created_at => m1 = m2

ReceivedUnread == { m \in MsgPool : m.sender_id # Me /\ m.read = FALSE }

MsgSets == { S \in SUBSET MsgPool : Cardinality(S) <= MaxMsgs /\ DistinctTimes(S) }

\* the other members of a conversation: one, or none or two (data anomalies)
OtherSets == {{}} \cup {{u} : u \in Peers} \cup {{"u1", "u2"}}

\* kinds of query the backend answers with an error during a run
DownSets == SUBSET {"lastMessage", "unread"}
              \cup {{"membership"}, {"counterpart"}, {"profile"}}

Engines == {"binaryInsertion", "linearInsertion"}

VARIABLES
  \* backend and runtime (never written by the component)
  session,        \* <<>> or <<user id>>
  memberIds,      \* chat_participants rows of the user: sequence of chat ids
  others,         \* chat id -> set of the other members
  messages,       \* chat id -> set of message rows
  down,           \* query kinds that fail
  engine,         \* sort algorithm of the JavaScript runtime
  \* component state (useState)
  chats, loading, currentUser,
  \* fetchChats: position and locals that live across awaits
  pc, chatIds, idx, chatPreviews, otherParticipant, userData, lastMessage,
  \* environment and observation
  mounted,        \* the hosting view is still mounted
  pending,        \* queries in flight
  queryLog,       \* every query issued by the current load, in order
  failed,         \* queries of the current load answered with an error
  toasts,         \* toast.error calls of the current load
  prevChats       \* <<>> or <<list committed by the previous load>>

backend == <<session, memberIds, others, messages, down, engine>>
locals  == <<chatIds, idx, chatPreviews, otherParticipant, userData, lastMessage>>
vars == <<session, memberIds, others, messages, down, engine,
          chats, loading, currentUser,
          pc, chatIds, idx, chatPreviews, otherParticipant, userData, lastMessage,
          mounted, pending, queryLog, failed, toasts, prevChats>>

\* ------------------------------------------------------------ helpers
Range(s) == { s[i] : i \in 1..Len(s) }

Max(S) == CHOOSE x \in S : \A y \in S : y <= x

NaN == <<>>

\* ------------------------------------------------------ backend answers
\* An answer is [error |-> BOOLEAN, data |-> <<>> or <<value>>].
Ok(v)   == [error |-> FALSE, data |-> <<v>>]
Err     == [error |-> TRUE,  data |-> <<>>]

\* .from('chat_participants').select('chat_id').eq('user_id', me)
MembershipAnswer ==
  IF "membership" \in down THEN Err ELSE Ok(memberIds)

\* .eq('chat_id', c).neq('user_id', me).single(): an error unless exactly one row
CounterpartAnswer(c) ==
  IF "counterpart" \in down \/ Cardinality(others[c]) # 1 THEN Err
  ELSE Ok([user_id |-> CHOOSE u \in others[c] : TRUE])

\* .from('profiles').eq('id', u).single()
ProfileAnswer(u) ==
  IF "profile" \in down \/ ProfileRow(u) = <<>> THEN Err
  ELSE Ok(ProfileRow(u)[1])

NewestFirst(S) == CHOOSE m \in S : m.created_at = Max({ x.created_at : x \in S })

\* .order('created_at', {ascending: false}).limit(1).single()
LastMessageRow(S) == NewestFirst(S)

LastMessageAnswer(c) ==
  IF "lastMessage" \in down \/ messages[c] = {} THEN Err
  ELSE Ok(LastMessageRow(messages[c]))

\* variant: the sender is not filtered
UnreadFilterAnySender(m) == m.read = FALSE

\* .eq('read', false).neq('sender_id', me)
UnreadFilter(m) == m.read = FALSE /\ m.sender_id # Me

\* select('*', {count: 'exact', head: true}): count is null on error
UnreadAnswer(c) ==
  IF "unread" \in down THEN Err
  ELSE Ok(Cardinality({ m \in messages[c] : UnreadFilter(m) }))

\* ------------------------------------------------------- preview record
\* new Date(created_at).toLocaleTimeString([], {hour, minute}): the time of
\* day as text; the date is not part of it.
FormatTime(t) == <<t % DayLen>>

\* new Date("HH:MM").getTime(): a time-of-day text is not a date, the result
\* is an Invalid Date whose getTime() is NaN.
ParseTime(s) == NaN

OrElse(v, dflt) == IF v = <<>> THEN dflt ELSE v

Unread(cnt) == IF cnt = <<>> THEN 0 ELSE cnt[1]

MakePreview(c, other, user, last, cnt) ==
  [ chat         |-> c,     \* auxiliary: the conversation the preview came from
    id           |-> other.user_id,
    username     |-> OrElse(user.username, <<"Usuario">>),
    avatar_url   |-> user.avatar_url,
    last_message |-> IF last = <<>> THEN <<>> ELSE last[1].content,
    last_time    |-> IF last = <<>> THEN <<>> ELSE FormatTime(last[1].created_at),
    unread       |-> Unread(cnt) ]

\* ----------------------------------------------------------------- sort
\* b - a on numbers that may be NaN
NumSub(x, y) == IF x = NaN \/ y = NaN THEN NaN ELSE <<x[1] - y[1]>>

\* the comparator handed to chatPreviews.sort
Compare(a, b) ==
  IF a.last_time = <<>> THEN <<1>>
  ELSE IF b.last_time = <<>> THEN <<-1>>
  ELSE NumSub(ParseTime(b.last_time), ParseTime(a.last_time))

\* Array.prototype.sort, SortCompare: a NaN from the comparator counts as +0
SortCompare(a, b) == LET v == Compare(a, b) IN IF v = NaN THEN 0 ELSE v[1]

Reverse(s) == [ i \in 1..Len(s) |-> s[Len(s) + 1 - i] ]

\* w with the element at index from moved to index to (to <= from)
MoveTo(w, from, to) ==
  [ i \in 1..Len(w) |->
      IF i < to \/ i > from THEN w[i]
      ELSE IF i = to THEN w[from] ELSE w[i - 1] ]

\* Runtime A (TimSort on a short array): find the leading run, reverse it when
\* it is strictly descending, then binary insertion of the remaining elements.
RECURSIVE RunEnd(_, _, _)
RunEnd(w, desc, i) ==
  IF i > Len(w) THEN i - 1
  ELSE LET order == SortCompare(w[i], w[i - 1])
       IN IF (desc /\ order >= 0) \/ (~desc /\ order < 0) THEN i - 1
          ELSE RunEnd(w, desc, i + 1)

RECURSIVE BinarySearch(_, _, _, _)
BinarySearch(w, pivot, left, right) ==
  IF left >= right THEN left
  ELSE LET mid == left + ((right - left) \div 2)
       IN IF SortCompare(pivot, w[mid]) < 0
          THEN BinarySearch(w, pivot, left, mid)
          ELSE BinarySearch(w, pivot, mid + 1, right)

RECURSIVE BinaryInsertionFrom(_, _)
BinaryInsertionFrom(w, start) ==
  IF start > Len(w) THEN w
  ELSE BinaryInsertionFrom(
         MoveTo(w, start, BinarySearch(w, w[start], 1, start)), start + 1)

BinaryInsertionSort(w) ==
  IF Len(w) < 2 THEN w
  ELSE LET desc == SortCompare(w[2], w[1]) < 0
           run  == RunEnd(w, desc, 3)
           w1   == IF desc
                   THEN Reverse(SubSeq(w, 1, run)) \o SubSeq(w, run + 1, Len(w))
                   ELSE w
       IN BinaryInsertionFrom(w1, run + 1)

\* Runtime B (merge sort whose short arrays are insertion sorted): each element
\* moves left past every element that compares greater than it.
RECURSIVE LinearSearch(_, _, _)
LinearSearch(w, item, j) ==
  IF j < 1 THEN 1
  ELSE IF SortCompare(w[j], item) <= 0 THEN j + 1
  ELSE LinearSearch(w, item, j - 1)

RECURSIVE LinearInsertionFrom(_, _)
LinearInsertionFrom(w, i) ==
  IF i > Len(w) THEN w
  ELSE LinearInsertionFrom(MoveTo(w, i, LinearSearch(w, w[i], i - 1)), i + 1)

LinearInsertionSort(w) == LinearInsertionFrom(w, 2)

\* chatPreviews.sort((a, b) => ...)
SortPreviews(w) ==
  IF engine = "binaryInsertion" THEN BinaryInsertionSort(w)
  ELSE LinearInsertionSort(w)

\* ----------------------------------------------------------------- Init
\* Backend contents.  Two shapes keep the state space small: up to MaxChats
\* conversations holding at most one (unread, received) message each, or a
\* single conversation holding up to MaxMsgs messages of any kind.
ManyChats ==
  \E n \in 0..MaxChats :
    /\ memberIds = [ i \in 1..n |-> i ]
    /\ others \in [1..n -> OtherSets]
    /\ messages \in [1..n -> {{}} \cup {{m} : m \in ReceivedUnread}]

ManyMessages ==
  /\ memberIds = <<1>>
  /\ others \in [1..1 -> OtherSets]
  /\ messages \in [1..1 -> MsgSets]

Init ==
  /\ session \in {<<>>, <<Me>>}
  /\ ManyChats \/ ManyMessages
  /\ down \in DownSets
  /\ engine \in Engines
  \* useState initial values
  /\ chats = <<>>
  /\ loading = TRUE
  /\ currentUser = <<>>
  \* the effect has called fetchChats, which is suspended at getSession()
  /\ pc = "session"
  /\ chatIds = <<>>
  /\ idx = 0
  /\ chatPreviews = <<>>
  /\ otherParticipant = <<>>
  /\ userData = <<>>
  /\ lastMessage = <<>>
  /\ mounted = TRUE
  /\ pending = { <<"session", 0>> }
  /\ queryLog = << <<"session", 0>> >>
  /\ failed = {}
  /\ toasts = 0
  /\ prevChats = <<>>

\* ------------------------------------------------------------- actions
\* variant: the unread count is asked for before the last message
NextKindUnreadFirst(kind) ==
  CASE kind = "counterpart" -> "profile"
    [] kind = "profile"     -> "unread"
    [] kind = "lastMessage" -> "unread"

\* the query awaited after `kind` inside one loop iteration
NextKind(kind) ==
  CASE kind = "counterpart" -> "profile"
    [] kind = "profile"     -> "lastMessage"
    [] kind = "lastMessage" -> "unread"

\* the awaited query q has been answered and the next query nq is awaited
Await(q, nq, kind) ==
  /\ pending' = (pending \ {q}) \cup {nq}
  /\ queryLog' = Append(queryLog, nq)
  /\ pc' = kind
  /\ toasts' = toasts

\* variant: the missing session is not checked
NoSessionIgnored(s) == FALSE

\* if (!session), line 26
NoSession(s) == s = <<>>

\* variant: the catch block only logs
ToastSwallowed(n) == n

\* toast.error(...) in the catch block, line 112
ToastError(n) == n + 1

\* variant: a counterpart already listed is not listed again
PushUnlessListed(previews, p) ==
  IF \E i \in DOMAIN previews : previews[i].id = p.id THEN previews
  ELSE Append(previews, p)

\* chatPreviews.push(preview), line 99
PushPreview(previews, p) == Append(previews, p)

\* variant: the toast is raised on every way out
ReturnToastAlways(q, thrown) ==
  /\ pending' = pending \ {q}
  /\ queryLog' = queryLog
  /\ pc' = "done"
  /\ toasts' = ToastError(toasts)
  /\ loading' = FALSE

\* variant: no finally block, loading is reset on the normal way out only
ReturnWithoutFinally(q, thrown) ==
  /\ pending' = pending \ {q}
  /\ queryLog' = queryLog
  /\ pc' = "done"
  /\ toasts' = IF thrown THEN ToastError(toasts) ELSE toasts
  /\ loading' = IF thrown THEN loading ELSE FALSE

\* the awaited query q has been answered and the function runs to its end,
\* by return, by falling off the try block, or (thrown) through the catch
\* block, which raises the toast; the finally block sets loading to false
Return(q, thrown) ==
  /\ pending' = pending \ {q}
  /\ queryLog' = queryLog
  /\ pc' = "done"
  /\ toasts' = IF thrown THEN ToastError(toasts) ELSE toasts
  /\ loading' = FALSE

\* variant: the accumulator outlives the call
KeepPreviews(old) == old

\* const chatPreviews = [] (line 51): every call starts from an empty
\* accumulator, whatever an earlier call has left
NewPreviews(old) == <<>>

\* end of one loop iteration (also through `continue`): the next conversation,
\* or, after the last one, sort, commit and leave through finally
EndIteration(q, previews) ==
  /\ otherParticipant' = <<>>
  /\ userData' = <<>>
  /\ lastMessage' = <<>>
  /\ chatPreviews' = previews
  /\ chatIds' = chatIds
  /\ IF idx < Len(chatIds)
     THEN /\ idx' = idx + 1
          /\ Await(q, <<"counterpart", chatIds[idx + 1]>>, "counterpart")
          /\ UNCHANGED <<chats, loading>>
     ELSE /\ idx' = idx
          /\ chats' = SortPreviews(previews)
          /\ Return(q, FALSE)

\* lines 25-38
ResumeSession ==
  LET q == <<"session", 0>> IN
  /\ pc = "session"
  /\ q \in pending
  /\ IF NoSession(session)
     THEN /\ chats' = <<>>
          /\ Return(q, FALSE)
          /\ UNCHANGED currentUser
     ELSE /\ currentUser' = session
          /\ Await(q, <<"membership", 0>>, "membership")
          /\ UNCHANGED <<chats, loading>>
  /\ UNCHANGED <<backend, locals, mounted, failed, prevChats>>

\* lines 35-60, and 110-115 when the query failed
ResumeMembership ==
  LET q == <<"membership", 0>>
      a == MembershipAnswer
  IN
  /\ pc = "membership"
  /\ q \in pending
  /\ IF a.error
     THEN \* throw participationsError -> catch -> toast.error -> finally
          /\ failed' = failed \cup {q}
          /\ Return(q, TRUE)
          /\ UNCHANGED <<chats, locals>>
     ELSE IF Len(a.data[1]) = 0
     THEN /\ chats' = <<>>
          /\ Return(q, FALSE)
          /\ UNCHANGED <<failed, locals>>
     ELSE /\ chatIds' = a.data[1]
          /\ chatPreviews' = NewPreviews(chatPreviews)
          /\ idx' = 1
          /\ Await(q, <<"counterpart", a.data[1][1]>>, "counterpart")
          /\ UNCHANGED <<chats, loading, failed,
                         otherParticipant, userData, lastMessage>>
  /\ UNCHANGED <<backend, currentUser, mounted, prevChats>>

\* lines 55-69
ResumeCounterpart ==
  LET c == chatIds[idx]
      q == <<"counterpart", c>>
      a == CounterpartAnswer(c)
  IN
  /\ pc = "counterpart"
  /\ q \in pending
  /\ IF a.error
     THEN \* continue
          /\ failed' = failed \cup {q}
          /\ EndIteration(q, chatPreviews)
     ELSE /\ otherParticipant' = a.data
          /\ Await(q, <<NextKind("counterpart"), c>>, NextKind("counterpart"))
          /\ UNCHANGED <<failed, chats, loading, chatIds, idx, chatPreviews,
                         userData, lastMessage>>
  /\ UNCHANGED <<backend, currentUser, mounted, prevChats>>

\* lines 65-80
ResumeProfile ==
  LET c == chatIds[idx]
      q == <<"profile", c>>
      a == ProfileAnswer(otherParticipant[1].user_id)
  IN
  /\ pc = "profile"
  /\ q \in pending
  /\ IF a.error
     THEN \* continue
          /\ failed' = failed \cup {q}
          /\ EndIteration(q, chatPreviews)
     ELSE /\ userData' = a.data
          /\ Await(q, <<NextKind("profile"), c>>, NextKind("profile"))
          /\ UNCHANGED <<failed, chats, loading, chatIds, idx, chatPreviews,
                         otherParticipant, lastMessage>>
  /\ UNCHANGED <<backend, currentUser, mounted, prevChats>>

\* lines 74-88: msgError is never read
ResumeLastMessage ==
  LET c == chatIds[idx]
      q == <<"lastMessage", c>>
      a == LastMessageAnswer(c)
  IN
  /\ pc = "lastMessage"
  /\ q \in pending
  /\ failed' = IF a.error THEN failed \cup {q} ELSE failed
  /\ lastMessage' = a.data
  /\ Await(q, <<NextKind("lastMessage"), c>>, NextKind("lastMessage"))
  /\ UNCHANGED <<backend, chats, loading, currentUser, chatIds, idx,
                 chatPreviews, otherParticipant, userData, mounted, prevChats>>

\* lines 83-115: unreadError is never read
ResumeUnread ==
  LET c == chatIds[idx]
      q == <<"unread", c>>
      a == UnreadAnswer(c)
  IN
  /\ pc = "unread"
  /\ q \in pending
  /\ failed' = IF a.error THEN failed \cup {q} ELSE failed
  /\ EndIteration(q, PushPreview(chatPreviews,
         MakePreview(c, otherParticipant[1], userData[1], lastMessage, a.data)))
  /\ UNCHANGED <<backend, currentUser, mounted, prevChats>>

\* the hosting view is torn down; the effect (line 21) returns no cleanup, so
\* fetchChats is not told
Unmount ==
  /\ mounted
  /\ mounted' = FALSE
  /\ UNCHANGED <<backend, chats, loading, currentUser, pc, locals, pending,
                 queryLog, failed, toasts, prevChats>>

\* a new ChatList is mounted after the previous load has ended: fresh useState
\* values, and the effect calls fetchChats again against the same backend
Remount ==
  /\ pc = "done"
  /\ prevChats' = <<chats>>
  /\ chats' = <<>>
  /\ loading' = TRUE
  /\ currentUser' = <<>>
  /\ pc' = "session"
  /\ chatIds' = <<>>
  /\ idx' = 0
  /\ chatPreviews' = chatPreviews    \* dead: line 51 replaces it
  /\ otherParticipant' = <<>>
  /\ userData' = <<>>
  /\ lastMessage' = <<>>
  /\ mounted' = TRUE
  /\ pending' = { <<"session", 0>> }
  /\ queryLog' = << <<"session", 0>> >>
  /\ failed' = {}
  /\ toasts' = 0
  /\ UNCHANGED backend

Step ==
  \/ ResumeSession
  \/ ResumeMembership
  \/ ResumeCounterpart
  \/ ResumeProfile
  \/ ResumeLastMessage
  \/ ResumeUnread

Next == Step \/ Unmount

Spec == Init /\ [][Next]_vars

NextReload == Step \/ Unmount \/ Remount

SpecReload == Init /\ [][NextReload]_vars

\* every awaited query is eventually answered, and a resumed function runs on
FairSpec == Init /\ [][Next]_vars /\ WF_vars(Step)

\* =============================================================== claims
\* the load has gone past the membership query and has ended
Committed == pc = "done" /\ session # <<>> /\ "membership" \notin down

\* the counterpart lookup or the profile lookup of conversation c fails
LookupFails(c) ==
  \/ "counterpart" \in down
  \/ Cardinality(others[c]) # 1
  \/ "profile" \in down
  \/ \A u \in others[c] : ProfileRow(u) = <<>>

FailingChats == { c \in Range(memberIds) : LookupFails(c) }

PreviewsOf(list, c) == { i \in DOMAIN list : list[i].chat = c }

IssuedKinds == { queryLog[i][1] : i \in DOMAIN queryLog }

ConversationKinds == {"counterpart", "profile", "lastMessage", "unread"}

\* C1: a load over N conversations of which M have a failing counterpart or
\* profile lookup commits exactly N - M previews: one for every conversation
\* whose lookups resolve (two conversations with the same counterpart are not
\* collapsed) and none for a failing one, which does not abort the load.
C1_PreviewCount ==
  Committed =>
    /\ Len(chats) = Len(memberIds) - Cardinality(FailingChats)
    /\ \A c \in Range(memberIds) :
         Cardinality(PreviewsOf(chats, c)) = IF c \in FailingChats THEN 0 ELSE 1

C1_Witness ==
  /\ Committed
  /\ Len(memberIds) = 2
  /\ FailingChats = {1}
  /\ Len(chats) = 1

\* a second reachable case of C1: both conversations have the same counterpart
C1_SharedCounterpart ==
  /\ Committed
  /\ Len(chats) = 2
  /\ chats[1].id = chats[2].id

\* newest creation timestamp of conversation c
LastTimestamp(c) == Max({ m.created_at : m \in messages[c] })

\* C2: in the committed list a preview whose last message is newer comes
\* before one whose last message is older, and previews without a last
\* message come after all previews that have one.
C2_SortedByRecency ==
  Committed =>
    \A i, j \in DOMAIN chats :
      /\ ( /\ chats[i].last_time # <<>>
           /\ chats[j].last_time # <<>>
           /\ LastTimestamp(chats[i].chat) > LastTimestamp(chats[j].chat) )
         => i < j
      /\ (chats[i].last_time # <<>> /\ chats[j].last_time = <<>>) => i < j

\* C3: after the hosting view is torn down no result of the load is written
\* to the preview list, the current user or the loading flag.
C3_NoWriteAfterUnmount ==
  [][ ~mounted => UNCHANGED <<chats, loading, currentUser>> ]_vars

\* C4: without a session the load commits an empty list and ends; it issues
\* no membership or per-conversation query and raises no notification.
C4_NoSessionNoQueries ==
  session = <<>> =>
    /\ IssuedKinds \subseteq {"session"}
    /\ toasts = 0
    /\ chats = <<>>
    /\ currentUser = <<>>
    /\ pc \in {"session", "done"}
    /\ pc = "done" => ~loading /\ pending = {}

C4_Witness ==
  /\ session = <<>>
  /\ pc = "done"
  /\ Len(memberIds) = 2
  /\ FailingChats = {}
  /\ down = {}

\* C5: when the membership query fails no per-conversation query is issued,
\* the preview list stays empty, one notification is raised and the component
\* ends in the non-loading state.
C5_MembershipFailure ==
  (session # <<>> /\ "membership" \in down) =>
    /\ IssuedKinds \cap ConversationKinds = {}
    /\ chats = <<>>
    /\ pc \in {"session", "membership", "done"}
    /\ pc = "done" => toasts = 1 /\ ~loading /\ pending = {}

C5_Witness ==
  /\ session # <<>>
  /\ "membership" \in down
  /\ pc = "done"
  /\ <<"membership", 0>> \in failed
  /\ Len(memberIds) = 2
  /\ FailingChats = {}

\* C6: a notification is raised only when the membership query fails; a failing
\* counterpart, profile, last-message or unread-count query raises none and
\* does not make the load fail (the previews of the other lookups are
\* committed).
C6_ToastOnlyOnMembershipFailure ==
  /\ toasts > 0 => (session # <<>> /\ "membership" \in down)
  /\ Committed =>
       /\ toasts = 0
       /\ \A c \in Range(memberIds) \ FailingChats : PreviewsOf(chats, c) # {}

C6_Witness ==
  /\ Committed
  /\ toasts = 0
  /\ \E q \in failed : q[1] = "counterpart"
  /\ \E q \in failed : q[1] = "unread"
  /\ Len(chats) = 1

\* C7: every conversation whose counterpart and profile resolve gets a preview
\* whatever the last-message and unread-count queries answer: no message or a
\* failed last-message query gives an empty snippet and no time; a failed
\* unread-count query gives 0, otherwise the unread count is the number of
\* messages of the conversation with read = false sent by someone else.
C7_PreviewFields ==
  /\ \A p \in Range(chatPreviews) \cup Range(chats) :
       /\ (messages[p.chat] = {} \/ "lastMessage" \in down)
            => (p.last_message = <<>> /\ p.last_time = <<>>)
       /\ p.unread =
            IF "unread" \in down THEN 0
            ELSE Cardinality({ m \in messages[p.chat] :
                                 ~m.read /\ m.sender_id # Me })
  /\ Committed =>
       \A c \in Range(memberIds) \ FailingChats : PreviewsOf(chats, c) # {}

C7_Witness ==
  /\ Committed
  /\ \E p \in Range(chats) :
       /\ p.unread = 1
       /\ Cardinality(messages[p.chat]) = 2
       /\ p.last_message # <<>>

\* a second reachable case of C7: both queries fail and the preview is emitted
C7_DefaultsOnFailure ==
  /\ Committed
  /\ down = {"lastMessage", "unread"}
  /\ \E p \in Range(chats) :
       /\ \E m \in messages[p.chat] : ~m.read /\ m.sender_id # Me
       /\ p.unread = 0
       /\ p.last_time = <<>>

\* C8: a second load against the same backend commits the same previews in
\* the same order as the first.
C8_Idempotent ==
  (pc = "done" /\ prevChats # <<>>) => chats = prevChats[1]

C8_Witness ==
  /\ pc = "done"
  /\ prevChats # <<>>
  /\ Len(chats) = 2
  /\ chats[1].last_time = <<>>
  /\ chats[2].last_time = <<>>

KindNo(kind) == CHOOSE k \in 1..4 :
  <<"counterpart", "profile", "lastMessage", "unread">>[k] = kind

\* b may be issued right after a
Follows(a, b) ==
  \/ a = <<"session", 0>> /\ b = <<"membership", 0>>
  \/ a = <<"membership", 0>> /\ b = <<"counterpart", memberIds[1]>>
  \/ /\ a[1] \in ConversationKinds
     /\ b[1] \in ConversationKinds
     /\ \/ a[2] = b[2] /\ KindNo(b[1]) = KindNo(a[1]) + 1
        \/ /\ b[1] = "counterpart"
           /\ a[1] \in {"counterpart", "profile", "unread"}
           /\ \E k \in 1..(Len(memberIds) - 1) :
                memberIds[k] = a[2] /\ memberIds[k + 1] = b[2]

\* C9: at most one query is outstanding; the queries of a conversation are
\* issued in the order counterpart, profile, last message, unread count; a
\* conversation is started only when the previous one has completed or has
\* been skipped; the list is committed only after all conversations.
C9_Sequential ==
  /\ Cardinality(pending) <= 1
  /\ pending # {} => pending = { queryLog[Len(queryLog)] }
  /\ pc = "done" <=> pending = {}
  /\ queryLog[1] = <<"session", 0>>
  /\ \A i \in 1..(Len(queryLog) - 1) : Follows(queryLog[i], queryLog[i + 1])
  /\ chats # <<>> =>
       /\ pc = "done"
       /\ \A c \in Range(memberIds) : <<"counterpart", c>> \in Range(queryLog)

C9_Witness ==
  /\ pc = "done"
  /\ Len(queryLog) = 10
  /\ Len(chats) = 2

\* C10: loading starts true and, every query being answered, eventually turns
\* false on every path; once false it stays false; and when it is false on
\* the success path the previews are already committed.
C10_LoadingSettles ==
  /\ [](pc # "done" => loading)
  /\ <>(~loading)
  /\ [][ ~loading => ~loading' ]_vars
  /\ [](~loading =>
          /\ pc = "done"
          /\ Committed =>
               \A c \in Range(memberIds) \ FailingChats : PreviewsOf(chats, c) # {})

C10_Witness ==
  /\ ~loading
  /\ Committed
  /\ Len(chats) = 2
  /\ ~mounted

====
